---- MODULE Spec2Model ----
(***************************************************************************)
(* Model of src/server/project.ts: the Project base class (root files,     *)
(* versions, the getChangesSinceVersion diff protocol, close) and the      *)
(* ConfiguredProject watch lifecycle.                                      *)
(*                                                                         *)
(* The language service (the analysis engine), the script-info registry    *)
(* and the host are collaborators outside project.ts.  The engine's        *)
(* answer to getProgram() is an input of updateGraph; the registry is      *)
(* represented by the set of infos attached to this project; the host by   *)
(* the list of watches it has handed out.                                  *)
(***************************************************************************)
EXTENDS Integers, Sequences, FiniteSets, TLC

VARIABLES
    projectKind,                \* ProjectKind of the constructed project
    rootFiles,                  \* Project.rootFiles: sequence of ScriptInfo
    rootFilesMap,               \* Project.rootFilesMap: path -> ScriptInfo
    lsHost,                     \* "live" (LSHost) or "null" (nullLanguageServiceHost)
    lsHostSettings,             \* settings held by the live LSHost, Undefined otherwise
    languageService,            \* "live", "null" or "disposed"
    languageServiceEnabled,
    compilerOptions,            \* Some(set of the option names that are set)
    program,                    \* Undefined or Some(sequence of source files)
    lastReportedFileNames,      \* Undefined or Some(keys of the map, insertion order)
    lastReportedVersion,
    projectStructureVersion,
    projectStateVersion,
    attached,                   \* infos whose containingProjects holds this project
    closed,                     \* close() has run
    projectFileWatcher,         \* ConfiguredProject: Undefined or Some(handle)
    directoryWatcher,           \* ConfiguredProject: Undefined or Some(handle)
    directoriesWatchedForWildcards, \* Undefined or Some(<<[directory, watcher], ...>>)
    wildcardDirectories,        \* Undefined or Some(<<[directory, flags], ...>>)
    hostWatches,                \* host: handle i -> [path, recursive, closes]
    directoriesWatchedForTsconfig,  \* InferredProject: sequence of directories
    closeLog,                   \* the calls close() made on its collaborators, in order
    NextId,                     \* InferredProject.NextId (static)
    inferredProjectName,        \* InferredProject.inferredProjectName, else Undefined
    inferredProjectNames,       \* the names given to inferred projects so far
    consumerVersion,            \* consumer: the info.version it received last
    consumerFiles,              \* consumer: the file set it holds
    lastOp,                     \* the last operation called and its arguments
    response,                   \* what the last getChangesSinceVersion returned
    roundTrip                   \* position in the full-report / ask-again sequence

vars == <<projectKind, rootFiles, rootFilesMap, lsHost, lsHostSettings,
          languageService, languageServiceEnabled, compilerOptions, program,
          lastReportedFileNames, lastReportedVersion, projectStructureVersion,
          projectStateVersion, attached, closed, projectFileWatcher,
          directoryWatcher, directoriesWatchedForWildcards, wildcardDirectories,
          hostWatches, directoriesWatchedForTsconfig, closeLog, NextId,
          inferredProjectName, inferredProjectNames, consumerVersion, consumerFiles,
          lastOp, response, roundTrip>>

projectVars == <<rootFiles, rootFilesMap, lsHost, lsHostSettings,
                 languageService, languageServiceEnabled, compilerOptions, program,
                 lastReportedFileNames, lastReportedVersion, projectStructureVersion,
                 projectStateVersion, attached>>

watchVars == <<projectFileWatcher, directoryWatcher,
               directoriesWatchedForWildcards, hostWatches,
               directoriesWatchedForTsconfig, closeLog>>

inferredVars == <<NextId, inferredProjectName, inferredProjectNames>>

consumerVars == <<consumerVersion, consumerFiles>>

-----------------------------------------------------------------------------
(* Bounds *)

MaxStateVersion == 4

MaxStructureVersion == 2

MaxWatches == 4

MaxInferredProjects == 4

-----------------------------------------------------------------------------
(* Values *)

\* an optional value is Undefined or Some(x)
Undefined == <<>>

Some(x) == <<x>>

ProjectKind == {"Inferred", "Configured", "External"}

\* ScriptInfos known to the registry, named by their fileName.
Infos == {"/src/A.ts", "/src/B.ts", "/lib/lib.d.ts"}

\* ScriptInfo.path: the canonical (lower-cased) form of fileName.
Path(info) ==
    CASE info = "/src/A.ts" -> "/src/a.ts"
      [] info = "/src/B.ts" -> "/src/b.ts"
      [] info = "/lib/lib.d.ts" -> "/lib/lib.d.ts"

\* ts.getDefaultCompilerOptions() followed by constructor lines 52-53
DefaultCompilerOptions == {"allowNonTsExtensions", "allowJs"}

\* getDefaultLibFilePath(options): the library file next to the running compiler,
\* the ES6 library when the options target ES6
getDefaultLibFilePath(options) ==
    IF "targetES6" \in options[1] THEN Some("/lib/lib.es6.d.ts")
    ELSE Some("/lib/lib.d.ts")

Range(s) == {s[i] : i \in DOMAIN s}

NoDuplicates(s) == \A i, j \in DOMAIN s : s[i] = s[j] => i = j

\* the ScriptInfos callers add and remove as roots
RootInfos == {"/src/A.ts", "/src/B.ts"}

\* the source-file lists the engine can answer with: any files in any order,
\* the default library (when it is in the program) first
SourceFileLists ==
    {s \in UNION {[1..n -> Infos] : n \in 0..Cardinality(Infos)} :
        /\ NoDuplicates(s)
        /\ \A i \in DOMAIN s : s[i] = "/lib/lib.d.ts" => i = 1}

\* lastOp: op is the method called, info / flag / version / options its arguments, engine
\* what the call asked of, or was answered by, the language-service binding
Op(op, info, flag, version, engine) ==
    [op |-> op, info |-> info, flag |-> flag, version |-> version, engine |-> engine,
     options |-> Undefined, result |-> Undefined]

NoOp == Op("constructor", "", FALSE, Undefined, "none")

\* protocol.ProjectFiles: info, and optionally files or changes
NoResponse == [info |-> Undefined, files |-> Undefined, changes |-> Undefined]

-----------------------------------------------------------------------------
(* Helpers of utilities.ts and of the services layer *)

\* copyListRemovingItem(item, list): a copy of list without item
copyListRemovingItem(item, list) == SelectSeq(list, LAMBDA e : e # item)

RECURSIVE arrayToMapKeys(_, _)
\* arrayToMap(array, x => x): one key per distinct element, in first-insertion order
arrayToMapKeys(array, acc) ==
    IF array = <<>> THEN acc
    ELSE arrayToMapKeys(Tail(array),
                        IF Head(array) \in Range(acc) THEN acc
                        ELSE Append(acc, Head(array)))

arrayToMap(array) == arrayToMapKeys(array, <<>>)

hasProperty(map, id) == id \in Range(map)

\* FileMap.set / FileMap.remove / FileMap.contains
FileMapSet(map, path, value) ==
    [p \in (DOMAIN map) \cup {path} |-> IF p = path THEN value ELSE map[p]]

FileMapRemove(map, path) == [p \in (DOMAIN map) \ {path} |-> map[p]]

FileMapContains(map, path) == path \in DOMAIN map

EmptyFileMap == [p \in {} |-> ""]

\* the character of a decimal digit
DigitChar(d) ==
    CASE d = 0 -> "0" [] d = 1 -> "1" [] d = 2 -> "2" [] d = 3 -> "3" [] d = 4 -> "4"
      [] d = 5 -> "5" [] d = 6 -> "6" [] d = 7 -> "7" [] d = 8 -> "8" [] d = 9 -> "9"

RECURSIVE NumberToString(_)
\* Number.prototype.toString() of a non-negative integer: its decimal digits
NumberToString(n) ==
    IF n < 10 THEN <<DigitChar(n)>>
    ELSE Append(NumberToString(n \div 10), DigitChar(n % 10))

\* makeInferredProjectName(counter): `/dev/null/inferredProject${counter}*`
makeInferredProjectName(counter) ==
    <<"/dev/null/inferredProject">> \o NumberToString(counter) \o <<"*">>

-----------------------------------------------------------------------------
(* Project: queries *)

ConfigFileName == "/proj/tsconfig.json"

getProjectName ==
    CASE projectKind = "Inferred" -> inferredProjectName[1]
      [] projectKind = "Configured" -> <<ConfigFileName>>
      [] projectKind = "External" -> <<"externalProject">>

getRootFiles == rootFiles

\* getFileNames without the test of line 108
getFileNamesIgnoringProgram ==
    IF ~languageServiceEnabled
    THEN IF compilerOptions # Undefined
            /\ getDefaultLibFilePath(compilerOptions) # Undefined
         THEN Append(getRootFiles, getDefaultLibFilePath(compilerOptions)[1])
         ELSE getRootFiles
    ELSE IF program = Undefined THEN <<>> ELSE program[1]

getFileNames ==
    IF program = Undefined THEN <<>>
    ELSE IF ~languageServiceEnabled
         THEN IF compilerOptions # Undefined
                 /\ getDefaultLibFilePath(compilerOptions) # Undefined
              THEN Append(getRootFiles, getDefaultLibFilePath(compilerOptions)[1])
              ELSE getRootFiles
         ELSE program[1]

\* isRoot asking the index for the file name instead of the path
isRootByFileName(info) == FileMapContains(rootFilesMap, info)

isRoot(info) == FileMapContains(rootFilesMap, Path(info))

-----------------------------------------------------------------------------
(* Project: construction *)

\* constructor lines 50-58: the options the project stores
ConstructorOptions(options, hasExplicitListOfFiles) ==
    IF options = Undefined THEN Some(DefaultCompilerOptions)
    ELSE IF hasExplicitListOfFiles THEN Some(options[1] \cup {"allowNonTsExtensions"})
    ELSE options

\* the compilerOptions arguments tried: none, an empty record, a record with one option
OptionArguments == {Undefined, Some({}), Some({"allowJs"})}

\* the arguments of setCompilerOptions tried where the default library matters
TargetOptionArguments == OptionArguments \cup {Some({"targetES6"})}

\* the constructor calls the three subclasses make
ConstructorCalls ==
    [kind : {"Inferred"}, explicit : {FALSE}, enabled : BOOLEAN, options : {Undefined}]
    \cup [kind : {"Configured"}, explicit : BOOLEAN, enabled : BOOLEAN,
          options : OptionArguments]
    \cup [kind : {"External"}, explicit : {TRUE}, enabled : BOOLEAN,
          options : OptionArguments]

\* line 312 without the increment of NextId
nextInferredIdUnchanged(id) == id

\* line 312: NextId++ leaves NextId one higher
nextInferredId(id) == id + 1

\* private static NextId = 1
InitialNextId == 1

\* the first project the process constructs
Constructed(c) ==
    /\ projectKind = c.kind
    /\ rootFiles = <<>>
    /\ rootFilesMap = EmptyFileMap
    /\ compilerOptions = ConstructorOptions(c.options, c.explicit)
    /\ languageServiceEnabled = c.enabled
    /\ lsHost = IF c.enabled THEN "live" ELSE "null"
    /\ languageService = IF c.enabled THEN "live" ELSE "null"
    /\ lsHostSettings = IF c.enabled
                        THEN ConstructorOptions(c.options, c.explicit)
                        ELSE Undefined
    /\ program = Undefined
    /\ lastReportedFileNames = Undefined
    /\ lastReportedVersion = 0
    /\ projectStructureVersion = 0
    /\ projectStateVersion = 1
    /\ attached = {}
    /\ closed = FALSE
    /\ projectFileWatcher = Undefined
    /\ directoryWatcher = Undefined
    /\ directoriesWatchedForWildcards = Undefined
    /\ hostWatches = <<>>
    /\ directoriesWatchedForTsconfig = <<>>
    /\ closeLog = <<>>
    /\ inferredProjectName = IF c.kind = "Inferred"
                             THEN Some(makeInferredProjectName(InitialNextId))
                             ELSE Undefined
    /\ inferredProjectNames = IF c.kind = "Inferred"
                              THEN <<makeInferredProjectName(InitialNextId)>>
                              ELSE <<>>
    /\ NextId = IF c.kind = "Inferred" THEN nextInferredId(InitialNextId)
                ELSE InitialNextId
    /\ consumerVersion = Undefined
    /\ consumerFiles = {}
    /\ lastOp = NoOp
    /\ response = NoResponse
    /\ roundTrip = "none"

\* new InferredProject(projectService, documentRegistry, languageServiceEnabled),
\* made after the first project; the state followed from here on is the new
\* project's, the static NextId and the names given so far are the process's
constructInferredProject(enabled) ==
    /\ NextId <= MaxInferredProjects
    /\ projectKind' = "Inferred"
    /\ rootFiles' = <<>>
    /\ rootFilesMap' = EmptyFileMap
    /\ compilerOptions' = ConstructorOptions(Undefined, FALSE)
    /\ languageServiceEnabled' = enabled
    /\ lsHost' = IF enabled THEN "live" ELSE "null"
    /\ languageService' = IF enabled THEN "live" ELSE "null"
    /\ lsHostSettings' = IF enabled THEN ConstructorOptions(Undefined, FALSE)
                         ELSE Undefined
    /\ program' = Undefined
    /\ lastReportedFileNames' = Undefined
    /\ lastReportedVersion' = 0
    /\ projectStructureVersion' = 0
    /\ projectStateVersion' = 1
    /\ attached' = {}
    /\ closed' = FALSE
    /\ directoriesWatchedForTsconfig' = <<>>
    /\ closeLog' = <<>>
    /\ inferredProjectName' = Some(makeInferredProjectName(NextId))
    /\ inferredProjectNames' =
          Append(inferredProjectNames, makeInferredProjectName(NextId))
    /\ NextId' = nextInferredId(NextId)
    /\ lastOp' = Op("constructor", "", enabled, Undefined, "none")
    /\ response' = NoResponse
    /\ roundTrip' = "none"
    /\ UNCHANGED <<projectFileWatcher, directoryWatcher,
                   directoriesWatchedForWildcards, wildcardDirectories, hostWatches,
                   consumerVars>>

-----------------------------------------------------------------------------
(* Project: operations *)

\* getProjectVersion reporting the structure version
getProjectVersionOfStructure == NumberToString(projectStructureVersion)

\* line 70: this.projectStateVersion.toString()
getProjectVersion == NumberToString(projectStateVersion)

\* a caller asks getProjectVersion() and keeps the token
callGetProjectVersion ==
    /\ ~closed
    /\ lastOp' = [Op("getProjectVersion", "", FALSE, Undefined, "none")
                   EXCEPT !.result = Some(getProjectVersion)]
    /\ response' = NoResponse
    /\ roundTrip' = "none"
    /\ UNCHANGED <<projectKind, closed, projectVars, wildcardDirectories,
                   watchVars, inferredVars, consumerVars>>

\* a caller asks getFileNames() and keeps the answer
callGetFileNames ==
    /\ ~closed
    /\ response' = [info |-> Undefined, files |-> Some(getFileNames),
                    changes |-> Undefined]
    /\ lastOp' = Op("getFileNames", "", languageServiceEnabled, Undefined, "none")
    /\ roundTrip' = "none"
    /\ UNCHANGED <<projectKind, closed, projectVars, wildcardDirectories,
                   watchVars, inferredVars, consumerVars>>

\* markAsDirty without the increment
markAsDirtyNoIncrement == projectStateVersion' = projectStateVersion

markAsDirty == projectStateVersion' = projectStateVersion + 1

enableLanguageService ==
    /\ ~closed
    /\ lsHostSettings' = compilerOptions
    /\ languageService' = "live"
    /\ lsHost' = "live"
    /\ languageServiceEnabled' = TRUE
    /\ lastOp' = Op("enableLanguageService", "", FALSE, Undefined, "none")
    /\ response' = NoResponse
    /\ UNCHANGED <<inferredVars, consumerVars>>
    /\ roundTrip' = "none"
    /\ UNCHANGED <<projectKind, rootFiles, rootFilesMap, compilerOptions, program,
                   lastReportedFileNames, lastReportedVersion,
                   projectStructureVersion, projectStateVersion, attached, closed,
                   wildcardDirectories, watchVars>>

\* disableLanguageService without line 84: the host stays the live one
disableLanguageServiceKeepingHost ==
    /\ ~closed
    /\ languageService' = "null"
    /\ languageServiceEnabled' = FALSE
    /\ lastOp' = Op("disableLanguageService", "", FALSE, Undefined, "none")
    /\ response' = NoResponse
    /\ roundTrip' = "none"
    /\ UNCHANGED <<projectKind, rootFiles, rootFilesMap, lsHost, lsHostSettings,
                   compilerOptions, program, lastReportedFileNames,
                   lastReportedVersion, projectStructureVersion,
                   projectStateVersion, attached, closed, wildcardDirectories,
                   watchVars, inferredVars, consumerVars>>

disableLanguageService ==
    /\ ~closed
    /\ languageService' = "null"
    /\ lsHost' = "null"
    /\ lsHostSettings' = Undefined
    /\ languageServiceEnabled' = FALSE
    /\ lastOp' = Op("disableLanguageService", "", FALSE, Undefined, "none")
    /\ response' = NoResponse
    /\ UNCHANGED <<inferredVars, consumerVars>>
    /\ roundTrip' = "none"
    /\ UNCHANGED <<projectKind, rootFiles, rootFilesMap, compilerOptions, program,
                   lastReportedFileNames, lastReportedVersion,
                   projectStructureVersion, projectStateVersion, attached, closed,
                   wildcardDirectories, watchVars>>

addRoot(info) ==
    /\ ~closed
    /\ IF ~isRoot(info)
       THEN /\ projectStateVersion < MaxStateVersion
            /\ rootFiles' = Append(rootFiles, info)
            /\ rootFilesMap' = FileMapSet(rootFilesMap, Path(info), info)
            /\ attached' = attached \cup {info}
            /\ markAsDirty
       ELSE UNCHANGED <<rootFiles, rootFilesMap, attached, projectStateVersion>>
    /\ lastOp' = Op("addRoot", info, isRoot(info), Undefined, "none")
    /\ response' = NoResponse
    /\ UNCHANGED <<inferredVars, consumerVars>>
    /\ roundTrip' = "none"
    /\ UNCHANGED <<projectKind, lsHost, lsHostSettings, languageService,
                   languageServiceEnabled, compilerOptions, program,
                   lastReportedFileNames, lastReportedVersion,
                   projectStructureVersion, closed, wildcardDirectories, watchVars>>

\* removeRoot leaving the entry in the index
removeRootKeepingIndex(info) ==
    IF isRoot(info)
    THEN /\ rootFiles' = copyListRemovingItem(info, rootFiles)
         /\ UNCHANGED rootFilesMap
    ELSE UNCHANGED <<rootFiles, rootFilesMap>>

\* removeRoot returns isRoot(info); its effect on the two root structures:
removeRoot(info) ==
    IF isRoot(info)
    THEN /\ rootFiles' = copyListRemovingItem(info, rootFiles)
         /\ rootFilesMap' = FileMapRemove(rootFilesMap, Path(info))
    ELSE UNCHANGED <<rootFiles, rootFilesMap>>

\* removeFile asking for a referenced file to be dropped whatever the file is
removeFileHostCallReferenced(info) == "removeReferencedFile"

\* the call removeFile makes on lsHost: removeRoot(info) from within
\* Project.removeRoot, else removeReferencedFile(info)
removeFileHostCall(info) ==
    IF isRoot(info) THEN "removeRoot" ELSE "removeReferencedFile"

removeFile(info, detachFromProject) ==
    /\ ~closed
    /\ projectStateVersion < MaxStateVersion
    /\ removeRoot(info)
    /\ attached' = IF detachFromProject THEN attached \ {info} ELSE attached
    /\ markAsDirty
    /\ lastOp' = Op("removeFile", info, detachFromProject, Undefined,
                    removeFileHostCall(info))
    /\ response' = NoResponse
    /\ UNCHANGED <<inferredVars, consumerVars>>
    /\ roundTrip' = "none"
    /\ UNCHANGED <<projectKind, lsHost, lsHostSettings, languageService,
                   languageServiceEnabled, compilerOptions, program,
                   lastReportedFileNames, lastReportedVersion,
                   projectStructureVersion, closed, wildcardDirectories, watchVars>>

\* what languageService.getProgram() can answer: the program it returned before
\* (same), or a new program with any list of source files; structureIsReused is
\* set on the old program only when the new one has the old one's source files
getProgramAnswers ==
    {a \in [same : BOOLEAN, files : SourceFileLists, structureIsReused : BOOLEAN] :
        /\ a.same => (program # Undefined /\ a.files = program[1]
                      /\ ~a.structureIsReused)
        /\ a.structureIsReused => (program # Undefined /\ a.files = program[1])}

EngineOutcome(a) ==
    IF a.same THEN "sameProgram"
    ELSE IF a.structureIsReused THEN "newProgramStructureReused"
    ELSE "newProgram"

\* line 180 without the structureIsReused test
structureChangedIgnoringReuse(a) == program = Undefined \/ ~a.same

\* line 180: !oldProgram || (this.program !== oldProgram && !oldProgram.structureIsReused)
structureChanged(a) == program = Undefined \/ (~a.same /\ ~a.structureIsReused)

\* line 170 never returning early
updateGraphNeverSkipped == FALSE

\* line 170: if (!this.languageServiceEnabled) return
updateGraphSkipped == ~languageServiceEnabled

updateGraph(a) ==
    /\ ~closed
    /\ IF updateGraphSkipped
       THEN /\ UNCHANGED <<program, projectStructureVersion>>
            /\ lastOp' = Op("updateGraph", "", FALSE, Undefined, "none")
       ELSE /\ program' = IF a.same THEN program ELSE Some(a.files)
            /\ IF structureChanged(a)
               THEN /\ projectStructureVersion < MaxStructureVersion
                    /\ projectStructureVersion' = projectStructureVersion + 1
               ELSE UNCHANGED projectStructureVersion
            /\ lastOp' = Op("updateGraph", "", TRUE, Undefined, EngineOutcome(a))
    /\ response' = NoResponse
    /\ UNCHANGED <<inferredVars, consumerVars>>
    /\ roundTrip' = "none"
    /\ UNCHANGED <<projectKind, rootFiles, rootFilesMap, lsHost, lsHostSettings,
                   languageService, languageServiceEnabled, compilerOptions,
                   lastReportedFileNames, lastReportedVersion, projectStateVersion,
                   attached, closed, wildcardDirectories, watchVars>>

\* line 209 testing for a record that holds an option
isNonEmptyRecord(options) == options # Undefined /\ options[1] # {}

\* line 209: if (compilerOptions), true of every record, the empty one too
isTruthy(options) == options # Undefined

setCompilerOptions(options) ==
    /\ ~closed
    /\ IF isTruthy(options)
       THEN /\ projectStateVersion < MaxStateVersion
            /\ compilerOptions' = Some(options[1] \cup {"allowNonTsExtensions"})
            /\ lsHostSettings' = IF lsHost = "live"
                                 THEN Some(options[1] \cup {"allowNonTsExtensions"})
                                 ELSE lsHostSettings
            /\ markAsDirty
       ELSE UNCHANGED <<compilerOptions, lsHostSettings, projectStateVersion>>
    /\ lastOp' = [Op("setCompilerOptions", "",
                      options # Undefined /\ options[1] # {}, Undefined,
                      IF isTruthy(options) THEN "setCompilationSettings" ELSE "none")
                   EXCEPT !.options = options]
    /\ response' = NoResponse
    /\ UNCHANGED <<inferredVars, consumerVars>>
    /\ roundTrip' = "none"
    /\ UNCHANGED <<projectKind, rootFiles, rootFilesMap, lsHost, languageService,
                   languageServiceEnabled, program, lastReportedFileNames,
                   lastReportedVersion, projectStructureVersion, attached, closed,
                   wildcardDirectories, watchVars>>

\* the first loop of the diff without its test
addedUnfiltered(currentFiles, lastFiles) == currentFiles

\* lines 249-260: the two loops of the diff
added(currentFiles, lastFiles) ==
    SelectSeq(currentFiles, LAMBDA id : hasProperty(currentFiles, id)
                                        /\ ~hasProperty(lastFiles, id))

removed(currentFiles, lastFiles) ==
    SelectSeq(lastFiles, LAMBDA id : hasProperty(lastFiles, id)
                                     /\ ~hasProperty(currentFiles, id))

\* info reporting the state version instead of the structure version
ProjectInfoStateVersion ==
    [projectName |-> getProjectName, version |-> projectStateVersion,
     isInferred |-> (projectKind = "Inferred")]

\* lines 234-238
ProjectInfo ==
    [projectName |-> getProjectName, version |-> projectStructureVersion,
     isInferred |-> (projectKind = "Inferred")]

\* the versions a caller passes: none, the version last reported, the current
\* structure version, or a number that was never reported
KnownVersions ==
    {Undefined, Some(lastReportedVersion), Some(projectStructureVersion),
     Some(MaxStructureVersion + 1)}

\* line 240 without the version comparison
isLastReportedIgnoringVersion(lastKnownVersion) == lastReportedFileNames # Undefined

\* line 240: the requested version is the one reported last time
isLastReported(lastKnownVersion) ==
    /\ lastReportedFileNames # Undefined
    /\ lastKnownVersion = Some(lastReportedVersion)

getChangesSinceVersion(lastKnownVersion) ==
    /\ ~closed
    /\ IF isLastReported(lastKnownVersion)
       THEN IF projectStructureVersion = lastReportedVersion
            THEN /\ response' = [info |-> Some(ProjectInfo), files |-> Undefined,
                                 changes |-> Undefined]
                 /\ UNCHANGED <<lastReportedFileNames, lastReportedVersion>>
            ELSE /\ response' =
                        [info |-> Some(ProjectInfo), files |-> Undefined,
                         changes |->
                            Some([added |-> added(arrayToMap(getFileNames),
                                                  lastReportedFileNames[1]),
                                  removed |-> removed(arrayToMap(getFileNames),
                                                      lastReportedFileNames[1])])]
                 /\ lastReportedFileNames' = Some(arrayToMap(getFileNames))
                 /\ lastReportedVersion' = projectStructureVersion
       ELSE /\ response' = [info |-> Some(ProjectInfo), files |-> Some(getFileNames),
                            changes |-> Undefined]
            /\ lastReportedFileNames' = Some(arrayToMap(getFileNames))
            /\ lastReportedVersion' = projectStructureVersion
    /\ lastOp' = Op("getChangesSinceVersion", "", lastReportedFileNames # Undefined,
                    lastKnownVersion, "none")
    /\ UNCHANGED inferredVars
    /\ roundTrip' =
          IF lastReportedFileNames = Undefined /\ lastKnownVersion = Undefined
          THEN "first"
          ELSE IF roundTrip = "first"
                  /\ lastKnownVersion = Some(response.info[1].version)
               THEN "second"
               ELSE "none"
    /\ UNCHANGED <<projectKind, rootFiles, rootFilesMap, lsHost, lsHostSettings,
                   languageService, languageServiceEnabled, compilerOptions, program,
                   projectStructureVersion, projectStateVersion, attached, closed,
                   wildcardDirectories, watchVars>>

-----------------------------------------------------------------------------
(* A consumer of getChangesSinceVersion *)

\* the file set the consumer holds after a response: files replaces it, changes
\* are applied to it, a summary leaves it
consumerApply(files, r) ==
    IF r.files # Undefined THEN Range(r.files[1])
    ELSE IF r.changes # Undefined
         THEN (files \cup Range(r.changes[1].added)) \ Range(r.changes[1].removed)
         ELSE files

\* the consumer asks with the version it received last (none the first time)
\* and keeps info.version and the resulting file set
consumerPoll ==
    /\ getChangesSinceVersion(consumerVersion)
    /\ consumerVersion' = Some(response'.info[1].version)
    /\ consumerFiles' = consumerApply(consumerFiles, response')

-----------------------------------------------------------------------------
(* Host watches *)

\* host.watchFile / host.watchDirectory: the host hands out the next handle
HostWatch(watches, path, recursive) ==
    Append(watches, [path |-> path, recursive |-> recursive, closes |-> 0])

NextHandle(watches) == Len(watches) + 1

\* FileWatcher.close() on each handle of the sequence handles
CloseWatchers(watches, handles) ==
    [h \in DOMAIN watches |->
        [watches[h] EXCEPT
            !.closes = @ + Cardinality({i \in DOMAIN handles : handles[i] = h})]]

\* getDirectoryPath(configFileName)
ConfigDirectoryPath == "/proj"

\* comparePaths(a, b, ".", ignoreCase) === Comparison.EqualTo, on normalized paths
comparePathsEqualTo(a, b) == a = b

\* the wildcardDirectories arguments tried
WildcardArguments ==
    {Undefined,
     Some(<<>>),
     Some(<<[directory |-> "/proj", flags |-> "Recursive"],
            [directory |-> "/shared", flags |-> "None"]>>),
     Some(<<[directory |-> "/proj/src", flags |-> "Recursive"],
            [directory |-> "/shared", flags |-> "None"]>>)}

\* the directories of wildcardDirectories that watchWildcards registers
WildcardsToWatch(dirs) ==
    SelectSeq(dirs, LAMBDA d : ~comparePathsEqualTo(ConfigDirectoryPath, d.directory))

RECURSIVE reduceWatchers(_, _)
\* reduceProperties over the directories to watch: the host watches registered
reduceWatchers(dirs, watches) ==
    IF dirs = <<>> THEN watches
    ELSE reduceWatchers(Tail(dirs),
                        HostWatch(watches, Head(dirs).directory,
                                  Head(dirs).flags = "Recursive"))

\* ... and the map directory -> watcher it returns
WildcardWatchers(dirs, watches) ==
    [i \in 1..Len(dirs) |->
        [directory |-> dirs[i].directory, watcher |-> Len(watches) + i]]

-----------------------------------------------------------------------------
(* ConfiguredProject: watch registration *)

watchConfigFile ==
    /\ ~closed
    /\ projectKind = "Configured"
    /\ Len(hostWatches) < MaxWatches
    /\ projectFileWatcher' = Some(NextHandle(hostWatches))
    /\ hostWatches' = HostWatch(hostWatches, ConfigFileName, FALSE)
    /\ lastOp' = Op("watchConfigFile", "", projectFileWatcher # Undefined,
                    Undefined, "none")
    /\ response' = NoResponse
    /\ UNCHANGED <<inferredVars, consumerVars>>
    /\ roundTrip' = "none"
    /\ UNCHANGED <<projectKind, projectVars, closed, directoryWatcher,
                   directoriesWatchedForWildcards, wildcardDirectories,
                   directoriesWatchedForTsconfig, closeLog>>

watchConfigDirectory ==
    /\ ~closed
    /\ projectKind = "Configured"
    /\ IF directoryWatcher # Undefined
       THEN UNCHANGED <<directoryWatcher, hostWatches>>
       ELSE /\ Len(hostWatches) < MaxWatches
            /\ directoryWatcher' = Some(NextHandle(hostWatches))
            /\ hostWatches' = HostWatch(hostWatches, ConfigDirectoryPath, TRUE)
    /\ lastOp' = Op("watchConfigDirectory", "", directoryWatcher # Undefined,
                    Undefined, "none")
    /\ response' = NoResponse
    /\ UNCHANGED <<inferredVars, consumerVars>>
    /\ roundTrip' = "none"
    /\ UNCHANGED <<projectKind, projectVars, closed, projectFileWatcher,
                   directoriesWatchedForWildcards, wildcardDirectories,
                   directoriesWatchedForTsconfig, closeLog>>

watchWildcards ==
    /\ ~closed
    /\ projectKind = "Configured"
    /\ IF wildcardDirectories = Undefined
       THEN UNCHANGED <<directoriesWatchedForWildcards, hostWatches>>
       ELSE /\ Len(hostWatches) + Len(WildcardsToWatch(wildcardDirectories[1]))
                  <= MaxWatches
            /\ directoriesWatchedForWildcards' =
                  Some(WildcardWatchers(WildcardsToWatch(wildcardDirectories[1]),
                                        hostWatches))
            /\ hostWatches' =
                  reduceWatchers(WildcardsToWatch(wildcardDirectories[1]), hostWatches)
    /\ lastOp' = Op("watchWildcards", "", directoriesWatchedForWildcards # Undefined,
                    Undefined, "none")
    /\ response' = NoResponse
    /\ UNCHANGED <<inferredVars, consumerVars>>
    /\ roundTrip' = "none"
    /\ UNCHANGED <<projectKind, projectVars, closed, projectFileWatcher,
                   directoryWatcher, wildcardDirectories,
                   directoriesWatchedForTsconfig, closeLog>>

stopWatchingDirectory ==
    /\ ~closed
    /\ projectKind = "Configured"
    /\ IF directoryWatcher # Undefined
       THEN /\ hostWatches' = CloseWatchers(hostWatches, directoryWatcher)
            /\ directoryWatcher' = Undefined
       ELSE UNCHANGED <<directoryWatcher, hostWatches>>
    /\ lastOp' = Op("stopWatchingDirectory", "", directoryWatcher # Undefined,
                    Undefined, "none")
    /\ response' = NoResponse
    /\ UNCHANGED <<inferredVars, consumerVars>>
    /\ roundTrip' = "none"
    /\ UNCHANGED <<projectKind, projectVars, closed, projectFileWatcher,
                   directoriesWatchedForWildcards, wildcardDirectories,
                   directoriesWatchedForTsconfig, closeLog>>

\* the directories the project service watches for a tsconfig.json on behalf of
\* an inferred project
TsconfigDirectories == {"/src", "/"}

\* the project service records a directory it started to watch for this project
watchDirectoryForTsconfig(directory) ==
    /\ ~closed
    /\ projectKind = "Inferred"
    /\ directory \notin Range(directoriesWatchedForTsconfig)
    /\ directoriesWatchedForTsconfig' = Append(directoriesWatchedForTsconfig, directory)
    /\ lastOp' = Op("watchDirectoryForTsconfig", directory, FALSE, Undefined, "none")
    /\ response' = NoResponse
    /\ roundTrip' = "none"
    /\ UNCHANGED <<projectKind, projectVars, closed, projectFileWatcher,
                   directoryWatcher, directoriesWatchedForWildcards,
                   wildcardDirectories, hostWatches, closeLog, inferredVars,
                   consumerVars>>

-----------------------------------------------------------------------------
(* close *)

Event(call, info, watcher) == [call |-> call, info |-> info, watcher |-> watcher]

WatcherEvents(handles) ==
    [i \in 1..Len(handles) |-> Event("FileWatcher.close", "", handles[i])]

\* Project.close (lines 90-97): the files it detaches and the calls it makes
ProjectCloseDetached == Range(getFileNames)

ProjectCloseLog ==
    [i \in 1..Len(getFileNames) |-> Event("detachFromProject", getFileNames[i], 0)]
    \o <<Event("languageService.dispose", "", 0)>>

\* ConfiguredProject.close (lines 392-399): the watchers it closes, in order
WildcardHandles ==
    IF directoriesWatchedForWildcards = Undefined THEN <<>>
    ELSE [i \in 1..Len(directoriesWatchedForWildcards[1]) |->
            directoriesWatchedForWildcards[1][i].watcher]

ConfiguredCloseHandles == projectFileWatcher \o WildcardHandles \o directoryWatcher

\* InferredProject.close (lines 322-324)
InferredCloseLog ==
    [i \in 1..Len(directoriesWatchedForTsconfig) |->
        Event("stopWatchingDirectory", directoriesWatchedForTsconfig[i], 0)]

\* ConfiguredProject.close releasing the config-file watch before super.close()
ConfiguredCloseLogInterleaved ==
    WatcherEvents(projectFileWatcher) \o ProjectCloseLog
    \o WatcherEvents(WildcardHandles \o directoryWatcher)

\* ConfiguredProject.close (lines 390-399): super.close(), then the watchers
ConfiguredCloseLog == ProjectCloseLog \o WatcherEvents(ConfiguredCloseHandles)

close ==
    /\ ~closed
    /\ closed' = TRUE
    /\ attached' = attached \ ProjectCloseDetached
    /\ languageService' = "disposed"
    /\ CASE projectKind = "Configured" ->
              /\ hostWatches' = CloseWatchers(hostWatches, ConfiguredCloseHandles)
              /\ directoriesWatchedForWildcards' = Undefined
              /\ directoryWatcher' = Undefined
              /\ closeLog' = ConfiguredCloseLog
         [] projectKind = "Inferred" ->
              /\ closeLog' = ProjectCloseLog \o InferredCloseLog
              /\ UNCHANGED <<hostWatches, directoriesWatchedForWildcards,
                             directoryWatcher>>
         [] projectKind = "External" ->
              /\ closeLog' = ProjectCloseLog
              /\ UNCHANGED <<hostWatches, directoriesWatchedForWildcards,
                             directoryWatcher>>
    /\ lastOp' = Op("close", "", FALSE, Undefined, "none")
    /\ response' = NoResponse
    /\ UNCHANGED <<inferredVars, consumerVars>>
    /\ roundTrip' = "none"
    /\ UNCHANGED <<projectKind, rootFiles, rootFilesMap, lsHost, lsHostSettings,
                   languageServiceEnabled, compilerOptions, program,
                   lastReportedFileNames, lastReportedVersion,
                   projectStructureVersion, projectStateVersion, projectFileWatcher,
                   wildcardDirectories, directoriesWatchedForTsconfig>>

-----------------------------------------------------------------------------
(* Specifications *)

\* An InferredProject under the operations of the Project base class.
Init ==
    /\ \E c \in ConstructorCalls : c.kind = "Inferred" /\ Constructed(c)
    /\ wildcardDirectories = Undefined

Next ==
    \/ \E info \in RootInfos : addRoot(info)
    \/ \E info \in Infos, detachFromProject \in BOOLEAN :
            removeFile(info, detachFromProject)
    \/ \E a \in getProgramAnswers : updateGraph(a)
    \/ \E options \in OptionArguments : setCompilerOptions(options)
    \/ \E lastKnownVersion \in KnownVersions :
            getChangesSinceVersion(lastKnownVersion) /\ UNCHANGED consumerVars
    \/ enableLanguageService
    \/ disableLanguageService

Spec == Init /\ [][Next]_vars

\* A project of any kind from construction to close.
InitClose ==
    /\ \E c \in ConstructorCalls : Constructed(c)
    /\ wildcardDirectories = Undefined

NextClose ==
    \/ \E info \in RootInfos : addRoot(info)
    \/ \E info \in Infos, detachFromProject \in BOOLEAN :
            removeFile(info, detachFromProject)
    \/ \E a \in getProgramAnswers : updateGraph(a)
    \/ enableLanguageService
    \/ disableLanguageService
    \/ close

SpecClose == InitClose /\ [][NextClose]_vars

\* A project of any kind whose options and language service are switched, and
\* whose file list is asked for after any of it.
NextOptions ==
    \/ \E info \in RootInfos : addRoot(info)
    \/ \E a \in getProgramAnswers : updateGraph(a)
    \/ \E options \in TargetOptionArguments : setCompilerOptions(options)
    \/ callGetFileNames
    \/ enableLanguageService
    \/ disableLanguageService

SpecOptions == InitClose /\ [][NextOptions]_vars

\* An InferredProject over its whole life: every operation (removeFile with its
\* default detachFromProject = true), and close.
NextLife ==
    \/ \E info \in RootInfos : addRoot(info)
    \/ \E info \in Infos : removeFile(info, TRUE)
    \/ \E a \in getProgramAnswers : updateGraph(a)
    \/ \E options \in OptionArguments : setCompilerOptions(options)
    \/ \E lastKnownVersion \in KnownVersions :
            getChangesSinceVersion(lastKnownVersion) /\ UNCHANGED consumerVars
    \/ enableLanguageService
    \/ disableLanguageService
    \/ callGetProjectVersion
    \/ close

SpecLife == Init /\ [][NextLife]_vars

\* Inferred projects constructed one after another, each used and closed or not.
NextInferred ==
    \/ \E enabled \in BOOLEAN : constructInferredProject(enabled)
    \/ \E info \in RootInfos : addRoot(info)
    \/ close

SpecInferred == Init /\ [][NextInferred]_vars

\* A ConfiguredProject under its watch operations.
InitWatch ==
    /\ \E c \in ConstructorCalls :
          c.kind = "Configured" /\ c.enabled /\ c.explicit /\ Constructed(c)
    /\ wildcardDirectories \in WildcardArguments

NextWatch ==
    \/ watchConfigFile
    \/ watchConfigDirectory
    \/ watchWildcards
    \/ stopWatchingDirectory
    \/ close

SpecWatch == InitWatch /\ [][NextWatch]_vars

\* A ConfiguredProject or an InferredProject with files and watches, closed.
InitCloseOrder ==
    /\ \E c \in ConstructorCalls :
          /\ c.kind \in {"Configured", "Inferred"}
          /\ c.options = Undefined
          /\ c.enabled
          /\ Constructed(c)
    /\ wildcardDirectories \in
          IF projectKind = "Configured" THEN WildcardArguments ELSE {Undefined}

NextCloseOrder ==
    \/ \E info \in RootInfos : addRoot(info)
    \/ \E a \in getProgramAnswers : updateGraph(a)
    \/ watchConfigFile
    \/ watchConfigDirectory
    \/ watchWildcards
    \/ \E directory \in TsconfigDirectories : watchDirectoryForTsconfig(directory)
    \/ close

SpecCloseOrder == InitCloseOrder /\ [][NextCloseOrder]_vars

\* An InferredProject and one consumer that follows its file list.
NextConsumer ==
    \/ \E info \in RootInfos : addRoot(info)
    \/ \E info \in Infos : removeFile(info, TRUE)
    \/ \E a \in getProgramAnswers : updateGraph(a)
    \/ \E options \in TargetOptionArguments : setCompilerOptions(options)
    \/ enableLanguageService
    \/ disableLanguageService
    \/ consumerPoll

SpecConsumer == Init /\ [][NextConsumer]_vars

-----------------------------------------------------------------------------
(* Properties *)

FileSet(files) == Range(files)

RootPaths == [i \in DOMAIN rootFiles |-> Path(rootFiles[i])]

\* C1: the key set of rootFilesMap equals the set of paths of rootFiles, and no
\* path occurs twice in rootFiles, in every state reached by addRoot and
\* removeFile interleaved with updateGraph and language-service toggling.
C1_RootIndexMatchesRootList ==
    /\ DOMAIN rootFilesMap = Range(RootPaths)
    /\ NoDuplicates(RootPaths)
    /\ \A i \in DOMAIN rootFiles : rootFilesMap[Path(rootFiles[i])] = rootFiles[i]

\* a root was removed by removeFile while another root stays
C1_Witness ==
    /\ lastOp.op = "removeFile"
    /\ lastOp.engine = "removeRoot"
    /\ Len(rootFiles) = 1
    /\ DOMAIN rootFilesMap = {Path(rootFiles[1])}

\* C2: getChangesSinceVersion called with no baseline yet, with no version, or
\* with a version other than lastReportedVersion returns the full file list and
\* no changes, and makes the current files and structure version the baseline.
C2_FullListOnUnknownVersion ==
    [][(/\ lastOp'.op = "getChangesSinceVersion"
        /\ \/ lastReportedFileNames = Undefined
           \/ lastOp'.version = Undefined
           \/ lastOp'.version # Some(lastReportedVersion))
       => /\ response'.files = Some(getFileNames)
          /\ response'.changes = Undefined
          /\ response'.info # Undefined
          /\ response'.info[1].version = projectStructureVersion
          /\ lastReportedFileNames' # Undefined
          /\ FileSet(lastReportedFileNames'[1]) = FileSet(getFileNames)
          /\ lastReportedVersion' = projectStructureVersion]_vars

\* a never-reported version was passed while a baseline existed, and a
\* non-empty full list came back
C2_Witness ==
    /\ lastOp.op = "getChangesSinceVersion"
    /\ lastOp.flag
    /\ lastOp.version = Some(MaxStructureVersion + 1)
    /\ response.files # Undefined
    /\ response.files[1] # <<>>
    /\ projectStructureVersion > 0

\* C3: with a baseline, the caller's version equal to lastReportedVersion and a
\* structure version that moved on, getChangesSinceVersion returns changes and no
\* files: added is exactly the current files missing from lastReportedFiles,
\* removed exactly the files of lastReportedFiles missing now; the baseline
\* becomes the current files and structure version.
C3_DiffIsExact ==
    [][(/\ lastOp'.op = "getChangesSinceVersion"
        /\ lastReportedFileNames # Undefined
        /\ lastOp'.version = Some(lastReportedVersion)
        /\ projectStructureVersion # lastReportedVersion)
       => /\ response'.files = Undefined
          /\ response'.changes # Undefined
          /\ FileSet(response'.changes[1].added)
                = FileSet(getFileNames) \ FileSet(lastReportedFileNames[1])
          /\ FileSet(response'.changes[1].removed)
                = FileSet(lastReportedFileNames[1]) \ FileSet(getFileNames)
          /\ NoDuplicates(response'.changes[1].added)
          /\ NoDuplicates(response'.changes[1].removed)
          /\ FileSet(response'.changes[1].added)
                \cap FileSet(response'.changes[1].removed) = {}
          /\ lastReportedFileNames' # Undefined
          /\ FileSet(lastReportedFileNames'[1]) = FileSet(getFileNames)
          /\ lastReportedVersion' = projectStructureVersion]_vars

\* the example: of the roots A.ts and B.ts, B.ts was removed; the program is now
\* lib.d.ts and A.ts, and the diff reports nothing added and B.ts removed
C3_Witness ==
    /\ lastOp.op = "getChangesSinceVersion"
    /\ rootFiles = <<"/src/A.ts">>
    /\ projectStateVersion = 4
    /\ program = Some(<<"/lib/lib.d.ts", "/src/A.ts">>)
    /\ response.changes = Some([added |-> <<>>, removed |-> <<"/src/B.ts">>])

\* C4: a first getChangesSinceVersion() with no version and no baseline, followed
\* at once by a call with the version just returned, gets a summary only (info,
\* no files, no changes) and leaves the baseline as it was.
C4_RoundTripIsSummaryOnly ==
    [][roundTrip' = "second"
       => /\ response'.info # Undefined
          /\ response'.files = Undefined
          /\ response'.changes = Undefined
          /\ UNCHANGED <<lastReportedFileNames, lastReportedVersion>>]_vars

\* the second call of the round trip was made on a project with a program
C4_Witness ==
    /\ roundTrip = "second"
    /\ lastOp.op = "getChangesSinceVersion"
    /\ program # Undefined
    /\ projectStructureVersion > 0
    /\ projectStateVersion > projectStructureVersion

\* the file removeFile was called with is a root or a file of the program
EffectiveRemoveFile(info) ==
    \/ info \in Range(rootFiles)
    \/ program # Undefined /\ info \in Range(program[1])

\* C5 as stated: projectStructureVersion never decreases, changes only across an
\* updateGraph that is the first one or whose resulting file set differs from the
\* one before, and an updateGraph whose file set stays the same leaves it alone.
C5_ChangesOnlyWithFileSet ==
    [][/\ projectStructureVersion' >= projectStructureVersion
       /\ projectStructureVersion' # projectStructureVersion
            => /\ lastOp'.op = "updateGraph"
               /\ \/ program = Undefined
                  \/ FileSet(getFileNames') # FileSet(getFileNames)
       /\ (/\ lastOp'.op = "updateGraph"
           /\ program # Undefined
           /\ FileSet(getFileNames') = FileSet(getFileNames))
            => projectStructureVersion' = projectStructureVersion]_vars

\* C5 amended: projectStructureVersion never decreases; it changes only across
\* an updateGraph made with the language service enabled that is the first one
\* (no program before) or that gets a different program whose predecessor's
\* structure was not reused, whatever the file sets are, and then grows by one;
\* no other operation changes it, and an updateGraph that gets the same program,
\* or one whose structure was reused, or runs with the service disabled, leaves
\* it unchanged.
C5_ChangesOnlyOnNewProgram ==
    [][/\ projectStructureVersion' >= projectStructureVersion
       /\ projectStructureVersion' # projectStructureVersion
            => /\ lastOp'.op = "updateGraph"
               /\ languageServiceEnabled
               /\ program = Undefined \/ lastOp'.engine = "newProgram"
               /\ projectStructureVersion' = projectStructureVersion + 1
       /\ (/\ lastOp'.op = "updateGraph"
           /\ languageServiceEnabled
           /\ program = Undefined \/ lastOp'.engine = "newProgram")
            => projectStructureVersion' = projectStructureVersion + 1
       /\ (/\ lastOp'.op = "updateGraph"
           /\ \/ ~languageServiceEnabled
              \/ /\ program # Undefined
                 /\ lastOp'.engine \in {"sameProgram", "newProgramStructureReused"})
            => projectStructureVersion' = projectStructureVersion]_vars

\* an updateGraph after the first one got a new program and raised the version
C5_Witness ==
    /\ lastOp.op = "updateGraph"
    /\ lastOp.engine = "newProgram"
    /\ projectStructureVersion = 2

\* C6 as stated: projectStateVersion grows on every addRoot call, every
\* effective removeFile call and every setCompilerOptions call with non-empty
\* options.
C6_GrowsOnEveryCall ==
    [][(\/ lastOp'.op = "addRoot"
        \/ lastOp'.op = "removeFile" /\ EffectiveRemoveFile(lastOp'.info)
        \/ lastOp'.op = "setCompilerOptions" /\ lastOp'.flag)
       => projectStateVersion' > projectStateVersion]_vars

\* C6 amended: projectStateVersion grows (by one) on every addRoot call for a
\* file that is not yet a root, on every effective removeFile call and on every
\* setCompilerOptions call with non-empty options; an addRoot call for a file
\* that is already a root leaves it unchanged.
C6_GrowsOnEveryEffectiveCall ==
    [][/\ (\/ lastOp'.op = "addRoot" /\ lastOp'.info \notin Range(rootFiles)
           \/ lastOp'.op = "removeFile" /\ EffectiveRemoveFile(lastOp'.info)
           \/ lastOp'.op = "setCompilerOptions" /\ lastOp'.flag)
            => projectStateVersion' = projectStateVersion + 1
       /\ (lastOp'.op = "addRoot" /\ lastOp'.info \in Range(rootFiles))
            => projectStateVersion' = projectStateVersion]_vars

\* a second root was just added, after an earlier change of the state: the
\* version stands at three or more
C6_Witness ==
    /\ lastOp.op = "addRoot"
    /\ ~lastOp.flag
    /\ Len(rootFiles) = 2
    /\ projectStateVersion >= 3

\* C7: addRoot(f) for an f that is already a root leaves rootFiles, rootFilesMap
\* and projectStateVersion as they are; a first addRoot(f) appends f to the end
\* of rootFiles, keeping the roots before it in place.
C7_AddRootIdempotent ==
    [][lastOp'.op = "addRoot"
       => IF lastOp'.info \in Range(rootFiles)
          THEN UNCHANGED <<rootFiles, rootFilesMap, projectStateVersion>>
          ELSE /\ rootFiles' = Append(rootFiles, lastOp'.info)
               /\ DOMAIN rootFilesMap' = DOMAIN rootFilesMap \cup {Path(lastOp'.info)}
               /\ projectStateVersion' = projectStateVersion + 1]_vars

\* addRoot was called for the first of two roots, which was a root already
C7_Witness ==
    /\ lastOp.op = "addRoot"
    /\ lastOp.flag
    /\ Len(rootFiles) = 2
    /\ lastOp.info = rootFiles[1]

\* C8: after close of a ConfiguredProject every watch it obtained from the host
\* has been closed exactly once, whatever watch calls came before, and the map
\* of wildcard watchers is cleared.
C8_CloseReleasesEveryWatchOnce ==
    closed => /\ \A h \in DOMAIN hostWatches : hostWatches[h].closes = 1
              /\ directoriesWatchedForWildcards = Undefined

\* C9: after close no ScriptInfo is attached to the project any more.
C9_CloseDetachesEveryFile == closed => attached = {}

\* C10: a watchConfigFile, watchConfigDirectory or watchWildcards call made when
\* the watch it registers is already held registers nothing with the host and
\* leaves the stored handles as they are.
C10_WatchRegistrationIdempotent ==
    [][(\/ lastOp'.op = "watchConfigFile" /\ projectFileWatcher # Undefined
        \/ lastOp'.op = "watchConfigDirectory" /\ directoryWatcher # Undefined
        \/ lastOp'.op = "watchWildcards" /\ directoriesWatchedForWildcards # Undefined)
       => UNCHANGED <<hostWatches, projectFileWatcher, directoryWatcher,
                      directoriesWatchedForWildcards>>]_vars

\* C11: the names given to inferred projects by successive constructions are
\* pairwise distinct, also when earlier projects were closed in between, and
\* the counter NextId the names are made from only grows and is never set back.
C11_InferredNamesDistinct ==
    /\ [](/\ NoDuplicates(inferredProjectNames)
          /\ inferredProjectName =
               Some(inferredProjectNames[Len(inferredProjectNames)])
          /\ NextId = InitialNextId + Len(inferredProjectNames))
    /\ [][NextId' >= NextId]_vars

\* a third inferred project was constructed after an earlier one was closed
C11_Witness ==
    /\ Len(inferredProjectNames) >= 3
    /\ lastOp.op = "constructor"
    /\ inferredProjectNames[1] # inferredProjectNames[3]

\* C12 as stated: getFileNames is empty without a program, else the roots and
\* the default library while the language service is disabled, else the files
\* of the program; and a project whose language service is disabled reports
\* its roots plus the default library.
C12_DisabledReportsRootsAndLibrary ==
    /\ program = Undefined => getFileNames = <<>>
    /\ (program # Undefined /\ languageServiceEnabled) => getFileNames = program[1]
    /\ ~languageServiceEnabled =>
          getFileNames = rootFiles \o <<getDefaultLibFilePath(compilerOptions)[1]>>

\* C12, amended: the three cases apply in this order, so a project whose
\* language service is disabled reports its roots plus the default library of
\* its current options only once a program has been computed, and the empty
\* sequence before; a call of getFileNames answers that list.
C12_FileNamesByCase ==
    /\ program = Undefined => getFileNames = <<>>
    /\ (program # Undefined /\ languageServiceEnabled) => getFileNames = program[1]
    /\ (program # Undefined /\ ~languageServiceEnabled) =>
          getFileNames = rootFiles \o <<getDefaultLibFilePath(compilerOptions)[1]>>
    /\ lastOp.op = "getFileNames" =>
          response.files =
             Some(IF program = Undefined THEN <<>>
                  ELSE IF languageServiceEnabled THEN program[1]
                  ELSE rootFiles \o <<getDefaultLibFilePath(compilerOptions)[1]>>)

\* a disabled project with a program, two roots and ES6 options has reported
\* its roots followed by the ES6 library, which the program does not hold
C12_Witness ==
    /\ ~languageServiceEnabled
    /\ program = Some(<<"/lib/lib.d.ts", "/src/A.ts">>)
    /\ lastOp.op = "getFileNames"
    /\ response.files = Some(<<"/src/B.ts", "/src/A.ts", "/lib/lib.es6.d.ts">>)

\* C13 as stated: setCompilerOptions with an empty record changes nothing, and
\* with a record that holds options it stores them with allowNonTsExtensions,
\* pushes them into the active binding and increments stateVersion.
C13_EmptyRecordIsNoOp ==
    [][lastOp'.op = "setCompilerOptions" /\ lastOp'.options # Undefined =>
         IF lastOp'.options = Some({})
         THEN UNCHANGED <<compilerOptions, lsHostSettings, projectStateVersion>>
         ELSE /\ compilerOptions' =
                    Some(lastOp'.options[1] \cup {"allowNonTsExtensions"})
              /\ lsHost = "live" => lsHostSettings' = compilerOptions'
              /\ projectStateVersion' = projectStateVersion + 1]_vars

\* C13, amended: setCompilerOptions changes nothing only when no options record
\* is passed; every record, the empty one too, is stored with
\* allowNonTsExtensions forced on and pushed into the active binding, and
\* stateVersion grows by one. Nothing else of the project changes either way.
C13_AbsentOptionsIsNoOp ==
    [][lastOp'.op = "setCompilerOptions" =>
         /\ IF lastOp'.options = Undefined
            THEN UNCHANGED <<compilerOptions, lsHostSettings, projectStateVersion>>
            ELSE /\ compilerOptions' =
                       Some(lastOp'.options[1] \cup {"allowNonTsExtensions"})
                 /\ lsHostSettings' = IF lsHost = "live" THEN compilerOptions'
                                      ELSE lsHostSettings
                 /\ projectStateVersion' = projectStateVersion + 1
         /\ UNCHANGED <<rootFiles, rootFilesMap, lsHost, languageService,
                        languageServiceEnabled, program, projectStructureVersion,
                        lastReportedFileNames, lastReportedVersion, attached>>]_vars

\* an empty record was passed to a project with a live binding whose options
\* held allowJs: the options are now only allowNonTsExtensions, the binding has
\* them and stateVersion grew
C13_Witness ==
    /\ lastOp.op = "setCompilerOptions"
    /\ lastOp.options = Some({})
    /\ compilerOptions = Some({"allowNonTsExtensions"})
    /\ lsHost = "live"
    /\ lsHostSettings = compilerOptions
    /\ projectStateVersion = 3

\* C14 as stated: removeFile on a file that is neither a root nor a file of the
\* program leaves the root list, the root index, stateVersion, structureVersion,
\* the program and the diff baseline unchanged.
C14_RemoveUnknownFileIsNoOp ==
    [][(lastOp'.op = "removeFile" /\ ~EffectiveRemoveFile(lastOp'.info)) =>
         UNCHANGED <<rootFiles, rootFilesMap, projectStateVersion,
                     projectStructureVersion, program, lastReportedFileNames,
                     lastReportedVersion>>]_vars

\* C14, amended: removeFile on a file that is neither a root nor a file of the
\* program leaves the root list, the root index, structureVersion, the program
\* and the diff baseline unchanged, asks the binding to drop a referenced file,
\* detaches the file if asked to, and still increments stateVersion by one.
C14_RemoveUnknownFileOnlyMarksDirty ==
    [][(lastOp'.op = "removeFile" /\ ~EffectiveRemoveFile(lastOp'.info)) =>
         /\ UNCHANGED <<rootFiles, rootFilesMap, projectStructureVersion, program,
                        lastReportedFileNames, lastReportedVersion>>
         /\ lastOp'.engine = "removeReferencedFile"
         /\ attached' = IF lastOp'.flag THEN attached \ {lastOp'.info} ELSE attached
         /\ projectStateVersion' = projectStateVersion + 1]_vars

\* the library file, neither a root nor in the program, was just removed from a
\* project with root A.ts and program A.ts, and stateVersion went from 2 to 3
C14_Witness ==
    /\ lastOp.op = "removeFile"
    /\ lastOp.info = "/lib/lib.d.ts"
    /\ rootFiles = <<"/src/A.ts">>
    /\ program = Some(<<"/src/A.ts">>)
    /\ projectStateVersion = 3

\* the number a decimal digit stands for
DigitValue(ch) ==
    CASE ch = "0" -> 0 [] ch = "1" -> 1 [] ch = "2" -> 2 [] ch = "3" -> 3
      [] ch = "4" -> 4 [] ch = "5" -> 5 [] ch = "6" -> 6 [] ch = "7" -> 7
      [] ch = "8" -> 8 [] ch = "9" -> 9

RECURSIVE ParseNumber(_)
\* the number a string of decimal digits stands for
ParseNumber(str) ==
    IF str = <<>> THEN 0
    ELSE 10 * ParseNumber(SubSeq(str, 1, Len(str) - 1)) + DigitValue(str[Len(str)])

\* C15: projectStateVersion and projectStructureVersion are non-negative
\* integers that no operation from construction to close decreases or sets
\* back, and the token getProjectVersion answers reads as the current
\* projectStateVersion.
C15_VersionsNeverDecrease ==
    /\ [](/\ projectStateVersion \in Nat
          /\ projectStructureVersion \in Nat
          /\ lastOp.op = "getProjectVersion" =>
                ParseNumber(lastOp.result[1]) = projectStateVersion)
    /\ [][/\ projectStateVersion' >= projectStateVersion
          /\ projectStructureVersion' >= projectStructureVersion]_vars

\* getProjectVersion answered "3" while the structure version stood at 1
C15_Witness ==
    /\ lastOp.op = "getProjectVersion"
    /\ lastOp.result = Some(<<"3">>)
    /\ projectStructureVersion = 1

\* C16: from the end of construction on, languageServiceEnabled is true exactly
\* when the language service and its host are both the live binding and false
\* exactly when both are the null binding, however enableLanguageService and
\* disableLanguageService are called; enableLanguageService seeds the live host
\* with the compiler options the project has at that moment, and the live host
\* holds the project's options from then on.
C16_OneBindingActive ==
    /\ [](/\ languageServiceEnabled <=> (languageService = "live" /\ lsHost = "live")
          /\ ~languageServiceEnabled <=> (languageService = "null" /\ lsHost = "null")
          /\ lsHost = "live" => lsHostSettings = compilerOptions)
    /\ [][/\ lastOp'.op = "enableLanguageService" =>
               /\ lsHostSettings' = compilerOptions
               /\ languageServiceEnabled'
          /\ lastOp'.op = "disableLanguageService" => ~languageServiceEnabled']_vars

\* a ConfiguredProject was given ES6 options and its language service was
\* enabled after that: the live host has the ES6 options
C16_Witness ==
    /\ lastOp.op = "enableLanguageService"
    /\ projectKind = "Configured"
    /\ projectStateVersion = 2
    /\ compilerOptions = Some({"targetES6", "allowNonTsExtensions"})
    /\ lsHost = "live"
    /\ lsHostSettings = compilerOptions

\* C17: updateGraph with the language service disabled leaves the program,
\* both versions, the root list, the root index and the diff baseline as they
\* are; and a step taken by a disabled project without a program never gives it
\* one, so a project disabled since construction never has a program.
C17_UpdateGraphSkippedWhileDisabled ==
    [][/\ (lastOp'.op = "updateGraph" /\ ~languageServiceEnabled) =>
            UNCHANGED <<program, projectStructureVersion, projectStateVersion,
                        rootFiles, rootFilesMap, lastReportedFileNames,
                        lastReportedVersion>>
       /\ (~languageServiceEnabled /\ program = Undefined) =>
            program' = Undefined]_vars

\* updateGraph was just called on a disabled project with two roots and a
\* reported baseline, and the project still has no program
C17_Witness ==
    /\ lastOp.op = "updateGraph"
    /\ ~languageServiceEnabled
    /\ Len(rootFiles) = 2
    /\ lastReportedFileNames # Undefined
    /\ program = Undefined
    /\ projectStructureVersion = 0

\* C18: removeFile(file, detach) removes a root file from the root list, keeping
\* the order of the others, and from the root index, and asks the binding to
\* drop a root; for any other file it leaves both root structures alone and
\* asks the binding to drop a referenced file; the file is detached exactly
\* when detach is true; projectStateVersion grows by one in every case.
C18_RemoveFileEffect ==
    [][lastOp'.op = "removeFile" =>
         /\ IF lastOp'.info \in Range(rootFiles)
            THEN /\ rootFiles' = SelectSeq(rootFiles, LAMBDA r : r # lastOp'.info)
                 /\ DOMAIN rootFilesMap' = DOMAIN rootFilesMap \ {Path(lastOp'.info)}
                 /\ \A q \in DOMAIN rootFilesMap' : rootFilesMap'[q] = rootFilesMap[q]
                 /\ lastOp'.engine = "removeRoot"
            ELSE /\ UNCHANGED <<rootFiles, rootFilesMap>>
                 /\ lastOp'.engine = "removeReferencedFile"
         /\ attached' = IF lastOp'.flag THEN attached \ {lastOp'.info} ELSE attached
         /\ projectStateVersion' = projectStateVersion + 1]_vars

\* the first of two roots was just removed without detaching it: the other
\* root is left, the binding dropped a root, and the file is still attached
C18_Witness ==
    /\ lastOp.op = "removeFile"
    /\ lastOp.info = "/src/A.ts"
    /\ ~lastOp.flag
    /\ lastOp.engine = "removeRoot"
    /\ rootFiles = <<"/src/B.ts">>
    /\ DOMAIN rootFilesMap = {Path("/src/B.ts")}
    /\ "/src/A.ts" \in attached
    /\ projectStateVersion = 4

\* the positions of closeLog at which a watch is released
ReleaseSteps ==
    {i \in DOMAIN closeLog :
        closeLog[i].call \in {"FileWatcher.close", "stopWatchingDirectory"}}

\* the positions of closeLog at which a file is detached
DetachSteps == {i \in DOMAIN closeLog : closeLog[i].call = "detachFromProject"}

\* C19: in the calls close() makes, the watch releases are one contiguous block
\* that starts the call or ends it, and every detachFromProject is on one side
\* of the block: none lies between two releases, and no release lies between
\* two detachments.
C19_ReleaseNotInterleaved ==
    (closed /\ ReleaseSteps # {}) =>
        /\ \A i, j \in ReleaseSteps :
              \A k \in i..j : k \in ReleaseSteps
        /\ \/ 1 \in ReleaseSteps
           \/ Len(closeLog) \in ReleaseSteps
        /\ \/ \A d \in DetachSteps, r \in ReleaseSteps : d < r
           \/ \A d \in DetachSteps, r \in ReleaseSteps : r < d

\* a ConfiguredProject was closed that had three files to detach, its
\* config-file watch and another watch to release
C19_Witness ==
    /\ closed
    /\ projectKind = "Configured"
    /\ Cardinality(DetachSteps) = 3
    /\ Cardinality(ReleaseSteps) >= 2
    /\ projectFileWatcher # Undefined

\* C20: after every response of getChangesSinceVersion, a consumer that
\* replaces its file set on a full response, applies a diff, keeps its set on a
\* summary and always passes back the version it received last holds exactly
\* the file set getFileNames answers at that moment.
C20_ConsumerInSync ==
    lastOp.op = "getChangesSinceVersion" => consumerFiles = FileSet(getFileNames)

====
